---- MODULE Spec2Model ----
(***************************************************************************)
(* Model of the retrieval core of ai-agent-rag-system:                     *)
(*   src/src/retrieval/vector_store.py  FAISSVectorStore, VectorStoreManager*)
(*   src/src/embeddings/embedding.py    EmbeddingManager                   *)
(* The vector store part (Spec) is one manager working on one directory;   *)
(* the embedding part (SpecEmbed) is one EmbeddingManager and its cache.   *)
(* Further parts: TextChunker (SpecChunk), the main API server's clear     *)
(* (SpecServer), two managers on one directory (SpecWriters), the request  *)
(* limiters (SpecLimit) and AIAgent.process_query (SpecAgent).             *)
(* Rows are 0-based as in the code; sequences are 1-based, so row r is     *)
(* element r + 1.                                                          *)
(***************************************************************************)
EXTENDS Integers, Sequences, FiniteSets, TLC

VARIABLES
    store,      \* manager.vector_store: dimension, index, metadata, embeddings
    up,         \* a VectorStoreManager object exists
    disk,       \* vector_store_path: exists, faiss.index, metadata.json, embeddings.npy
    last,       \* the last call on the manager and how it ended
    hits,       \* FAISSVectorStore.search: the idx of each pair of the last search
    res,        \* VectorStoreManager.search: detailed_results of the last search
    uploads,    \* the uploads directory: exists, the entries in it
    clog,       \* what the last clear logged: the entries deleted, the errors
    cache,      \* EmbeddingManager.embedding_cache
    ecall,      \* the last call on the EmbeddingManager: op, args, how it ended
    eret,       \* what that call returned
    esent,      \* the batches that call handed to the underlying model
    chunker,    \* a TextChunker: chunk_size, chunk_overlap
    cres,       \* its last call: op, what it raised, the chunks, the overlaps
    writers,    \* two more VectorStoreManager objects on vector_store_path
    now,        \* time.time(), in ticks of 30 s
    limiter,    \* a RateLimiter: max_requests, window_seconds, requests
    lite,       \* server_lite.py: RAG_RATE_LIMIT_PER_MIN, RAG_ALLOWED_IPS, _rate_limit_store
    granted,    \* per caller, the times of the requests that were let through
    rcall,      \* the last request checked: by whom, the answer, the refusals before it
    agent       \* an AIAgent: thoughts, where process_query stands, what it returned

storeVars == <<store, up, disk, last, hits, res, uploads, clog>>
embedVars == <<cache, ecall, eret, esent>>
chunkVars == <<chunker, cres>>
limitVars == <<now, limiter, lite, granted, rcall>>
otherVars == <<writers, limitVars, agent>>
vars == <<store, up, disk, last, hits, res, uploads, clog,
          cache, ecall, eret, esent, chunker, cres, writers,
          now, limiter, lite, granted, rcall, agent>>

(***************************************************************************)
(* Bounds and value pools                                                  *)
(***************************************************************************)
MaxRows == 2
MaxBatch == 2
MaxTopK == 2
MaxTexts == 2
MaxPars == 3

\* FAISSVectorStore(dimension=...): 384 in the code, 2 here
Dimension == 2

\* the underlying embedding model, deterministic: a vector of the store's
\* dimension for each text
Texts == {"x", "y", "z"}
Encode(text) ==
    CASE text = "x" -> <<0, 0>>
      [] text = "y" -> <<1, 0>>
      [] OTHER -> <<1, 1>>
VecPool == {Encode(text) : text \in Texts}

\* a vector of another length than the store's dimension
ShortVec == <<1>>

\* TextChunk values: the same source ingested twice with changed text
\* (chunker.py derives chunk_id from source_file and chunk_index).
MkChunk(src, i, n, s, e, text) ==
    [content |-> text, chunk_id |-> src \o "_chunk_" \o ToString(i), source_file |-> src,
     chunk_index |-> i, total_chunks |-> n, start_char |-> s, end_char |-> e]
ChunkPool ==
    {MkChunk("a.txt", 0, 1, 0, 1, "x"),
     MkChunk("a.txt", 0, 1, 0, 1, "y")}

SeqsUpTo(S, n) == UNION {[1..k -> S] : k \in 0..n}

\* The embeddings handed to add_chunks with a list of chunks: one vector per
\* chunk, that of its content ("each", what every caller in the repository
\* passes), or a list that is one shorter or one longer, or whose vectors
\* have the wrong length, all of them ("short") or the first ("ragged").
EmbeddingModes == {"each", "fewer", "more", "short", "ragged"}
EmbeddingsFor(chunks, mode) ==
    LET each == [i \in 1..Len(chunks) |-> Encode(chunks[i].content)]
    IN  CASE mode = "fewer" -> SubSeq(each, 1, Len(each) - 1)
          [] mode = "more" -> Append(each, Encode("x"))
          [] mode = "short" -> [i \in 1..Len(chunks) |-> ShortVec]
          [] mode = "ragged" -> [i \in 1..Len(chunks) |->
                                    IF i = 1 THEN ShortVec ELSE each[i]]
          [] OTHER -> each
Batches ==
    {[chunks |-> c, embeddings |-> EmbeddingsFor(c, m)] :
        c \in SeqsUpTo(ChunkPool, MaxBatch), m \in EmbeddingModes}

(***************************************************************************)
(* FAISSVectorStore                                                        *)
(***************************************************************************)
\* __init__: an empty IndexFlatL2(dimension), no metadata, a (0, dimension) matrix
FreshStore(dimension) ==
    [dimension |-> dimension,
     index |-> [d |-> dimension, rows |-> <<>>],
     metadata |-> <<>>,
     embeddings |-> [cols |-> dimension, rows |-> <<>>]]

\* DocumentMetadata(chunk_id=chunk.chunk_id, ...) of add_documents
DocumentMetadata(chunk) ==
    [chunk_id |-> chunk.chunk_id, source_file |-> chunk.source_file,
     chunk_index |-> chunk.chunk_index, total_chunks |-> chunk.total_chunks,
     start_char |-> chunk.start_char, end_char |-> chunk.end_char,
     content |-> chunk.content]

\* np.array(embeddings, dtype=np.float32) raises on a ragged list
Ragged(embeddings) ==
    \E i, j \in 1..Len(embeddings) : Len(embeddings[i]) # Len(embeddings[j])

Width(embeddings) == Len(embeddings[1])

\* add_documents: the store afterwards and whether the call raised.
\*   no chunks or no embeddings: warning, return
\*   np.array raises on a ragged list           (nothing changed yet)
\*   index.add asserts the width is index.d     (nothing changed yet)
\*   then the metadata loop, then np.vstack, which raises when the matrix
\*   has another number of columns              (index and metadata changed)
add_documents(s, chunks, embeddings) ==
    IF chunks = <<>> \/ embeddings = <<>>
    THEN [store |-> s, raised |-> FALSE]
    ELSE IF Ragged(embeddings) \/ Width(embeddings) # s.index.d
    THEN [store |-> s, raised |-> TRUE]
    ELSE LET s1 == [s EXCEPT !.index.rows = @ \o embeddings,
                             !.metadata = @ \o [i \in 1..Len(chunks) |->
                                                   DocumentMetadata(chunks[i])]]
         IN  IF s.embeddings.cols # Width(embeddings)
             THEN [store |-> s1, raised |-> TRUE]
             ELSE [store |-> [s1 EXCEPT !.embeddings.rows = @ \o embeddings],
                   raised |-> FALSE]

(***************************************************************************)
(* search                                                                  *)
(***************************************************************************)
RECURSIVE SumSq(_, _, _)
SumSq(u, v, i) ==
    IF i = 0 THEN 0 ELSE (u[i] - v[i]) * (u[i] - v[i]) + SumSq(u, v, i - 1)

\* IndexFlatL2 reports squared Euclidean distances
L2sqr(u, v) == SumSq(u, v, Len(u))

\* the distance faiss reports in a slot for which it found no vector
\* (FLT_MAX): greater than every distance between vectors of the pools
MissingDistance == Dimension + 1

\* row i comes before row j in faiss' result: nearer, or as near and earlier
Before(rows, q, i, j) ==
    \/ L2sqr(rows[i + 1], q) < L2sqr(rows[j + 1], q)
    \/ L2sqr(rows[i + 1], q) = L2sqr(rows[j + 1], q) /\ i < j

\* the p-th nearest row (p from 1)
Nearest(rows, q, p) ==
    CHOOSE i \in 0..(Len(rows) - 1) :
        Cardinality({j \in 0..(Len(rows) - 1) : Before(rows, q, j, i)}) = p - 1

\* index.search(query_array, k), slot p: the p-th nearest row, and idx -1
\* in the slots left over when the index holds fewer than k vectors
SlotIdx(index, q, p) ==
    IF p <= Len(index.rows) THEN Nearest(index.rows, q, p) ELSE -1

\* the distance faiss reports beside idx
SlotDistance(index, q, idx) ==
    IF idx >= 0 THEN L2sqr(index.rows[idx + 1], q) ELSE MissingDistance

Min(a, b) == IF a < b THEN a ELSE b

\* metadata[idx] of Python: a negative idx counts from the end
PyIndex(seq, idx) == IF idx >= 0 THEN seq[idx + 1] ELSE seq[Len(seq) + idx + 1]

\* a conversion that grows with the distance
SimilarityGrowing(distance) == [num |-> 1 + distance, den |-> 1]

\* similarity = 1 / (1 + distance), kept as a fraction
Similarity(distance) == [num |-> 1, den |-> 1 + distance]

\* the idx of the slots that pass `if idx < len(self.metadata)`, in order
KeptIdx(s, q, k) ==
    SelectSeq([p \in 1..k |-> SlotIdx(s.index, q, p)],
              LAMBDA idx : idx < Len(s.metadata))

\* results.append((metadata.chunk_id, float(similarity))) for each idx kept
Pairs(s, q, kept) ==
    [i \in 1..Len(kept) |->
        <<PyIndex(s.metadata, kept[i]).chunk_id,
          Similarity(SlotDistance(s.index, q, kept[i]))>>]

\* FAISSVectorStore.search, k = min(top_k, len(self.metadata)): faiss asserts
\* the query's length is index.d and, in the builds where assertsK holds,
\* that k > 0. Returns the idx of every pair appended (rows) and the
\* (chunk_id, similarity) pairs (results).
search(s, query_embedding, top_k, assertsK) ==
    LET k == Min(top_k, Len(s.metadata))
        kept == KeptIdx(s, query_embedding, k)
    IN  IF Len(query_embedding) # s.index.d \/ (assertsK /\ k <= 0)
        THEN [raised |-> TRUE, rows |-> <<>>, results |-> <<>>]
        ELSE [raised |-> FALSE, rows |-> kept,
              results |-> Pairs(s, query_embedding, kept)]

\* asdict(metadata)
asdict(m) ==
    [chunk_id |-> m.chunk_id, source_file |-> m.source_file,
     chunk_index |-> m.chunk_index, total_chunks |-> m.total_chunks,
     start_char |-> m.start_char, end_char |-> m.end_char,
     content |-> m.content]

\* get_chunk_by_id: the first record with that chunk_id as a dict, or None;
\* an Optional is a sequence of at most one element
get_chunk_by_id(s, chunk_id) ==
    LET at == {i \in 1..Len(s.metadata) : s.metadata[i].chunk_id = chunk_id}
    IN  IF at = {} THEN <<>>
        ELSE <<asdict(s.metadata[CHOOSE i \in at : \A j \in at : i <= j])>>

\* metadata['similarity'] = similarity
WithSimilarity(md, similarity) ==
    [chunk_id |-> md.chunk_id, source_file |-> md.source_file,
     chunk_index |-> md.chunk_index, total_chunks |-> md.total_chunks,
     start_char |-> md.start_char, end_char |-> md.end_char,
     content |-> md.content, similarity |-> similarity]

\* VectorStoreManager.search: looks every pair's chunk_id up again and
\* drops the pairs for which get_chunk_by_id returns None
Detailed(s, results) ==
    [i \in 1..Len(results) |->
        WithSimilarity(get_chunk_by_id(s, results[i][1])[1], results[i][2])]

ManagerSearch(s, r) ==
    [raised |-> r.raised, rows |-> r.rows,
     detailed_results |->
        Detailed(s, SelectSeq(r.results,
                              LAMBDA pr : get_chunk_by_id(s, pr[1]) # <<>>))]

(***************************************************************************)
(* save and load. The directory holds up to three artifacts; torn records  *)
(* that a save was cut short leaving beside the files it wrote a file of   *)
(* another store state (one whose content is not that of the state being   *)
(* saved).                                                                 *)
(***************************************************************************)
NoIndexFile == [present |-> FALSE, d |-> 0, rows |-> <<>>]
NoMetaFile == [present |-> FALSE, shape |-> "list", recs |-> <<>>]
NoEmbFile == [present |-> FALSE, cols |-> 0, rows |-> <<>>]

NoDir == [exists |-> FALSE, index |-> NoIndexFile, meta |-> NoMetaFile,
          emb |-> NoEmbFile, torn |-> FALSE]
EmptyDir == [NoDir EXCEPT !.exists = TRUE]

\* faiss.write_index(self.index, index_path)
IndexFile(s) == [present |-> TRUE, d |-> s.index.d, rows |-> s.index.rows]

\* json.dump([asdict(m) for m in self.metadata], f): a bare list
MetaFile(s) ==
    [present |-> TRUE, shape |-> "list",
     recs |-> [i \in 1..Len(s.metadata) |-> asdict(s.metadata[i])]]

\* np.save(embeddings_path, self.embeddings)
EmbFile(s) ==
    [present |-> TRUE, cols |-> s.embeddings.cols, rows |-> s.embeddings.rows]

SaveOutcomes == {"ok", "io_error", "crash_index", "crash_meta"}

\* a file the save did not get to, holding something else than the state saved
Stale(file, fresh) == file.present /\ file # fresh

\* FAISSVectorStore.save: makedirs, then the three files one after the other.
\* outcome is what the environment does to it: nothing (ok), the first write
\* raising (io_error), or the process dying after the first or second file.
save(s, d, outcome) ==
    LET d0 == [d EXCEPT !.exists = TRUE]
        d1 == [d0 EXCEPT !.index = IndexFile(s),
                         !.torn = Stale(d.meta, MetaFile(s))
                                  \/ Stale(d.emb, EmbFile(s))]
        d2 == [d1 EXCEPT !.meta = MetaFile(s),
                         !.torn = Stale(d.emb, EmbFile(s))]
        d3 == [d2 EXCEPT !.emb = EmbFile(s), !.torn = FALSE]
    IN  CASE outcome = "io_error" -> d0
          [] outcome = "crash_index" -> d1
          [] outcome = "crash_meta" -> d2
          [] OTHER -> d3

\* DocumentMetadata(**m)
FromDict(m) ==
    [chunk_id |-> m.chunk_id, source_file |-> m.source_file,
     chunk_index |-> m.chunk_index, total_chunks |-> m.total_chunks,
     start_char |-> m.start_char, end_char |-> m.end_char,
     content |-> m.content]

\* load as it would be with the index artifact never read back
LoadWithoutIndex(s, d) ==
    IF ~d.exists THEN [store |-> s, raised |-> FALSE]
    ELSE IF d.meta.present /\ d.meta.shape # "list"
    THEN [store |-> s, raised |-> TRUE]
    ELSE [store |-> [s EXCEPT
                !.metadata = IF d.meta.present
                             THEN [i \in 1..Len(d.meta.recs) |->
                                      FromDict(d.meta.recs[i])]
                             ELSE @,
                !.embeddings = IF d.emb.present
                               THEN [cols |-> d.emb.cols, rows |-> d.emb.rows]
                               ELSE @],
          raised |-> FALSE]

\* FAISSVectorStore.load: each artifact that exists replaces its part of the
\* store, in the order index, metadata, embeddings. A metadata file that is
\* an object (the wrapped shape) makes DocumentMetadata(**m) raise, m being
\* a key of the object, and one that is not JSON (truncated) makes json.load
\* raise; both after the index was replaced. Nothing catches either.
load(s, d) ==
    IF ~d.exists THEN [store |-> s, raised |-> FALSE]
    ELSE LET s1 == IF d.index.present
                   THEN [s EXCEPT !.index = [d |-> d.index.d,
                                             rows |-> d.index.rows]]
                   ELSE s
             s2 == IF d.meta.present
                   THEN [s1 EXCEPT !.metadata =
                            [i \in 1..Len(d.meta.recs) |-> FromDict(d.meta.recs[i])]]
                   ELSE s1
             s3 == IF d.emb.present
                   THEN [s2 EXCEPT !.embeddings = [cols |-> d.emb.cols,
                                                   rows |-> d.emb.rows]]
                   ELSE s2
         IN  IF d.meta.present /\ d.meta.shape # "list"
             THEN [store |-> s1, raised |-> TRUE]
             ELSE [store |-> s3, raised |-> FALSE]

\* clear as it would be with the persisted files left in place
DirLeftAsIs(d) == d

\* VectorStoreManager.clear, the store's part: a new FAISSVectorStore, and
\* rmtree + makedirs of vector_store_path when it exists
ClearedDir(d) == IF d.exists THEN EmptyDir ELSE d

\* the uploads directory: a regular file, a subdirectory, and an entry that
\* is neither for os.path.isfile / isdir (a dangling symbolic link)
UploadEntries == {"f.pdf", "sub", "lnk"}
EntryKind(e) ==
    CASE e = "f.pdf" -> "file"
      [] e = "sub" -> "dir"
      [] OTHER -> "other"
NoUploads == [exists |-> FALSE, entries |-> {}]
InitUploads ==
    {NoUploads} \cup {[exists |-> TRUE, entries |-> E] : E \in SUBSET UploadEntries}

NoLog == [given |-> FALSE, deleted |-> {}, errors |-> {}]

\* VectorStoreManager.clear, the uploads part: every entry that is a file
\* or a directory is deleted, or logged and counted as an error when its
\* deletion raises (the entries in failing); other entries are passed over
ClearUploads(u, uploads_dir, failing) ==
    IF uploads_dir /\ u.exists
    THEN LET tried == {e \in u.entries : EntryKind(e) \in {"file", "dir"}}
         IN  [uploads |-> [u EXCEPT !.entries = @ \ (tried \ failing)],
              log |-> [given |-> TRUE, deleted |-> tried \ failing,
                       errors |-> tried \cap failing]]
    ELSE [uploads |-> u, log |-> [NoLog EXCEPT !.given = uploads_dir]]

\* VectorStoreManager.get_statistics
get_statistics(s) ==
    [total_chunks |-> Len(s.metadata),
     unique_documents |->
        Cardinality({s.metadata[i].source_file : i \in 1..Len(s.metadata)}),
     dimension |-> s.dimension]

(***************************************************************************)
(* The directories the program may be started on: none, or one left by an  *)
(* earlier deployment or an interrupted write: any of the three artifacts  *)
(* present or not, the metadata in either shape or cut short.              *)
(***************************************************************************)
InitRecs == <<asdict(DocumentMetadata(MkChunk("a.txt", 0, 1, 0, 1, "x")))>>
InitRows == <<Encode("x")>>

InitDirs ==
    {NoDir} \cup
    { [exists |-> TRUE, index |-> i, meta |-> m, emb |-> e, torn |-> FALSE] :
        i \in {NoIndexFile,
               [present |-> TRUE, d |-> Dimension, rows |-> InitRows],
               [present |-> TRUE, d |-> Len(ShortVec), rows |-> <<>>]},
        m \in {NoMetaFile,
               [present |-> TRUE, shape |-> "list", recs |-> <<>>],
               [present |-> TRUE, shape |-> "truncated", recs |-> <<>>]}
              \cup {[present |-> TRUE, shape |-> sh, recs |-> InitRecs] :
                        sh \in {"list", "wrapped"}},
        e \in {NoEmbFile,
               [present |-> TRUE, cols |-> Dimension, rows |-> InitRows]} }

(***************************************************************************)
(* The manager's operations                                                *)
(***************************************************************************)
Down == FreshStore(Dimension)

InitStore ==
    /\ store = Down
    /\ up = FALSE
    /\ disk \in InitDirs
    /\ last = "init"
    /\ hits = <<>>
    /\ res = <<>>
    /\ uploads = NoUploads
    /\ clog = NoLog

\* the locals of a search or a clear are gone once another call runs
NoResult ==
    /\ hits' = <<>>
    /\ res' = <<>>
    /\ clog' = NoLog
    /\ UNCHANGED uploads
    /\ UNCHANGED <<embedVars, chunkVars, otherVars>>

\* VectorStoreManager(dimension): a new store, loaded when the path exists.
\* server_lite.py builds one per request, so it may replace a live one.
Construct ==
    LET r == load(FreshStore(Dimension), disk)
    IN  /\ store' = IF r.raised THEN Down ELSE r.store
        /\ up' = ~r.raised
        /\ last' = IF r.raised THEN "construct_fail" ELSE "construct_ok"
        /\ UNCHANGED disk
        /\ NoResult

Crashed(outcome) == outcome \in {"crash_index", "crash_meta"}

\* add_chunks as it would be with the save left to a later call
AddChunksUnsaved(chunks, embeddings) ==
    LET r == add_documents(store, chunks, embeddings)
    IN  /\ up
        /\ Len(store.index.rows) + Len(embeddings) <= MaxRows
        /\ Len(store.metadata) + Len(chunks) <= MaxRows
        /\ store' = r.store
        /\ last' = IF r.raised THEN "add_fail" ELSE "add_ok"
        /\ UNCHANGED <<up, disk>>
        /\ NoResult

\* VectorStoreManager.add_chunks: add_documents, then save
AddChunks(chunks, embeddings) ==
    LET r == add_documents(store, chunks, embeddings)
    IN  /\ up
        /\ Len(store.index.rows) + Len(embeddings) <= MaxRows
        /\ Len(store.metadata) + Len(chunks) <= MaxRows
        /\ IF r.raised
           THEN /\ store' = r.store
                /\ last' = "add_fail"
                /\ UNCHANGED <<up, disk>>
           ELSE \E outcome \in SaveOutcomes :
                /\ disk' = save(r.store, disk, outcome)
                /\ store' = IF Crashed(outcome) THEN Down ELSE r.store
                /\ up' = ~Crashed(outcome)
                /\ last' = CASE Crashed(outcome) -> "crash"
                             [] outcome = "io_error" -> "add_fail"
                             [] OTHER -> "add_ok"
        /\ NoResult

\* VectorStoreManager.save
Save(outcome) ==
    /\ up
    /\ disk' = save(store, disk, outcome)
    /\ store' = IF Crashed(outcome) THEN Down ELSE store
    /\ up' = ~Crashed(outcome)
    /\ last' = CASE Crashed(outcome) -> "crash"
                 [] outcome = "io_error" -> "save_fail"
                 [] OTHER -> "save_ok"
    /\ NoResult

\* VectorStoreManager.clear(uploads_dir): uploads_dir is given or None.
\* shutil.rmtree of vector_store_path is outside every try and may raise
\* (rmtree_fails: a file that cannot be removed), after the in-memory store
\* was replaced; the deletions in uploads_dir are each inside a try. The
\* one caller (server_lite.py, reset) works on a manager of its own and
\* drops it when clear raises. failing: the entries of uploads_dir whose
\* deletion raises.
Clear(uploads_dir, rmtree_fails) ==
    /\ up
    /\ IF disk.exists /\ rmtree_fails
       THEN /\ store' = Down
            /\ up' = FALSE
            /\ last' = "clear_fail"
            /\ clog' = NoLog
            /\ UNCHANGED <<disk, uploads>>
       ELSE \E failing \in SUBSET uploads.entries :
            LET r == ClearUploads(uploads, uploads_dir, failing)
            IN  /\ store' = FreshStore(store.dimension)
                /\ disk' = ClearedDir(disk)
                /\ uploads' = r.uploads
                /\ clog' = r.log
                /\ last' = "clear"
                /\ UNCHANGED up
    /\ hits' = <<>>
    /\ res' = <<>>
    /\ UNCHANGED <<embedVars, chunkVars, otherVars>>

\* VectorStoreManager.search (RAGPipeline.retrieve hands it the query's
\* vector). Whether faiss asserts k > 0 depends on the faiss build, and
\* matters only when the metadata list is empty.
Search(query_embedding, top_k) ==
    /\ up
    /\ \E assertsK \in IF store.metadata = <<>> THEN BOOLEAN ELSE {FALSE} :
       \E r \in {ManagerSearch(store,
                     search(store, query_embedding, top_k, assertsK))} :
        /\ hits' = r.rows
        /\ res' = r.detailed_results
        /\ last' = IF r.raised THEN "search_fail" ELSE "search_ok"
        /\ clog' = NoLog
        /\ UNCHANGED <<store, up, disk, uploads>>
        /\ UNCHANGED <<embedVars, chunkVars, otherVars>>

NextStore ==
    \/ Construct
    \/ \E b \in Batches : AddChunks(b.chunks, b.embeddings)
    \/ \E outcome \in SaveOutcomes : Save(outcome)
    \/ \E uploads_dir, rmtree_fails \in BOOLEAN : Clear(uploads_dir, rmtree_fails)
    \/ \E q \in VecPool, top_k \in 1..MaxTopK : Search(q, top_k)

(***************************************************************************)
(* Two VectorStoreManager objects on the same vector_store_path, each in a *)
(* process of its own (server_lite.py builds one per upload request,       *)
(* streamlit_standalone.py keeps one per session): each loads the          *)
(* directory in __init__, and add_chunks is add_documents followed by save *)
(***************************************************************************)
Writers == {1, 2}
Idle == [pc |-> "idle", store |-> FreshStore(Dimension)]

\* the chunks of the document that writer w uploads, and their vectors
WriterChunks(w) ==
    <<MkChunk(IF w = 1 THEN "w1.txt" ELSE "w2.txt", 0, 1, 0, 1,
              IF w = 1 THEN "y" ELSE "z")>>
WriterEmbeddings(w) == EmbeddingsFor(WriterChunks(w), "each")

\* VectorStoreManager.__init__ of writer w
WriterInit(w) ==
    LET r == load(FreshStore(Dimension), disk)
    IN  /\ writers[w].pc = "idle"
        /\ writers' = [writers EXCEPT ![w] =
                          IF r.raised THEN [pc |-> "failed", store |-> Idle.store]
                          ELSE [pc |-> "loaded", store |-> r.store]]
        /\ UNCHANGED <<storeVars, embedVars, chunkVars, limitVars, agent>>

\* add_chunks of writer w, its first statement: add_documents
WriterAdd(w) ==
    LET r == add_documents(writers[w].store, WriterChunks(w), WriterEmbeddings(w))
    IN  /\ writers[w].pc = "loaded"
        /\ writers' = [writers EXCEPT ![w] =
                          [pc |-> IF r.raised THEN "failed" ELSE "added",
                           store |-> r.store]]
        /\ UNCHANGED <<storeVars, embedVars, chunkVars, limitVars, agent>>

\* add_chunks of writer w, its second statement: save
WriterSave(w) ==
    /\ writers[w].pc = "added"
    /\ disk' = save(writers[w].store, disk, "ok")
    /\ writers' = [writers EXCEPT ![w].pc = "saved"]
    /\ UNCHANGED <<store, up, last, hits, res, uploads, clog>>
    /\ UNCHANGED <<embedVars, chunkVars, limitVars, agent>>

NextWriters ==
    \/ \E w \in Writers : WriterInit(w)
    \/ \E w \in Writers : WriterAdd(w)
    \/ \E w \in Writers : WriterSave(w)

(***************************************************************************)
(* The two request limiters: RateLimiter (src/safety/guards.py, held by    *)
(* the SafetyManager of server.py) and enforce_security of server_lite.py. *)
(* They belong to different programs: a behaviour runs one of the two.     *)
(* A dict without the key and a dict with an empty list behave alike, so   *)
(* requests is a function on all the callers.                              *)
(***************************************************************************)
MaxTime == 3
MaxDenied == 2
Users == {"u1", "u2"}
RequestLimits == {0, 1, 2}
Windows == {1, 2}

\* _rate_limit_window_sec = 60, in ticks of 30 s
rate_limit_window_sec == 2

NoRequests == [u \in Users |-> <<>>]
NoLimiter == [up |-> FALSE, max_requests |-> 0, window_seconds |-> 0,
              requests |-> NoRequests]
NoLite == [up |-> FALSE, rate_limit_max |-> 0, allowed_ips |-> {},
           rate_limit_store |-> NoRequests]
NoRCall == [op |-> "none", who |-> "", answer |-> "none", denied |-> 0]

\* is_allowed with the test of the limit taken after the request is recorded
is_allowedRecordingFirst(l, user_id, current_time) ==
    LET kept == SelectSeq(l.requests[user_id],
                          LAMBDA req_time : current_time - req_time < l.window_seconds)
        recorded == Append(kept, current_time)
    IN  [allowed |-> Len(recorded) <= l.max_requests,
         requests |-> [l.requests EXCEPT ![user_id] = recorded]]

\* is_allowed refusing only above the limit
is_allowedOneMore(l, user_id, current_time) ==
    LET kept == SelectSeq(l.requests[user_id],
                          LAMBDA req_time : current_time - req_time < l.window_seconds)
    IN  IF Len(kept) > l.max_requests
        THEN [allowed |-> FALSE, requests |-> [l.requests EXCEPT ![user_id] = kept]]
        ELSE [allowed |-> TRUE,
              requests |-> [l.requests EXCEPT ![user_id] = Append(kept, current_time)]]

\* RateLimiter.is_allowed at current_time: whether it answers True, and
\* self.requests afterwards
is_allowed(l, user_id, current_time) ==
    LET kept == SelectSeq(l.requests[user_id],
                          LAMBDA req_time : current_time - req_time < l.window_seconds)
    IN  IF Len(kept) >= l.max_requests
        THEN [allowed |-> FALSE, requests |-> [l.requests EXCEPT ![user_id] = kept]]
        ELSE [allowed |-> TRUE,
              requests |-> [l.requests EXCEPT ![user_id] = Append(kept, current_time)]]

\* while q and now - q[0] > _rate_limit_window_sec: q.popleft()
RECURSIVE popleft_old(_, _)
popleft_old(q, t) ==
    IF q # <<>> /\ t - q[1] > rate_limit_window_sec
    THEN popleft_old(Tail(q), t) ELSE q

\* enforce_security: 403 for an address that RAG_ALLOWED_IPS leaves out, 429
\* over the limit, and the deque of client_ip afterwards
enforce_security(m, client_ip, t) ==
    LET q == popleft_old(m.rate_limit_store[client_ip], t)
    IN  IF m.allowed_ips # {} /\ client_ip \notin m.allowed_ips
        THEN [answer |-> "403", rate_limit_store |-> m.rate_limit_store]
        ELSE IF Len(q) >= m.rate_limit_max
        THEN [answer |-> "429",
              rate_limit_store |-> [m.rate_limit_store EXCEPT ![client_ip] = q]]
        ELSE [answer |-> "ok",
              rate_limit_store |->
                  [m.rate_limit_store EXCEPT ![client_ip] = Append(q, t)]]

\* the refusals of user since its last request let through, counted up to
\* MaxDenied
DeniedBefore(user) ==
    IF rcall.who = user /\ rcall.answer \notin {"ok", "none"}
    THEN Min(rcall.denied + 1, MaxDenied)
    ELSE 0

\* the clock advances
Tick ==
    /\ now < MaxTime
    /\ now' = now + 1
    /\ UNCHANGED <<limiter, lite, granted, rcall>>
    /\ UNCHANGED <<storeVars, embedVars, chunkVars, writers, agent>>

\* RateLimiter(max_requests, window_seconds)
NewRateLimiter(max_requests, window_seconds) ==
    /\ ~lite.up
    /\ limiter' = [up |-> TRUE, max_requests |-> max_requests,
                   window_seconds |-> window_seconds, requests |-> NoRequests]
    /\ granted' = NoRequests
    /\ rcall' = NoRCall
    /\ UNCHANGED <<now, lite>>
    /\ UNCHANGED <<storeVars, embedVars, chunkVars, writers, agent>>

\* rate_limiter.is_allowed(user_id)
IsAllowed(user_id) ==
    LET r == is_allowed(limiter, user_id, now)
    IN  /\ limiter.up
        /\ limiter' = [limiter EXCEPT !.requests = r.requests]
        /\ granted' = IF r.allowed
                      THEN [granted EXCEPT ![user_id] = Append(@, now)]
                      ELSE granted
        /\ rcall' = [op |-> "is_allowed", who |-> user_id,
                     answer |-> IF r.allowed THEN "ok" ELSE "denied",
                     denied |-> DeniedBefore(user_id)]
        /\ UNCHANGED <<now, lite>>
        /\ UNCHANGED <<storeVars, embedVars, chunkVars, writers, agent>>

\* server_lite.py is started: RAG_RATE_LIMIT_PER_MIN is read once, the store
\* is empty
ImportServerLite(rate_limit_max, allowed_ips) ==
    /\ ~limiter.up
    /\ lite' = [up |-> TRUE, rate_limit_max |-> rate_limit_max,
                allowed_ips |-> allowed_ips, rate_limit_store |-> NoRequests]
    /\ granted' = NoRequests
    /\ rcall' = NoRCall
    /\ UNCHANGED <<now, limiter>>
    /\ UNCHANGED <<storeVars, embedVars, chunkVars, writers, agent>>

\* a request of client_ip reaches one of the guarded endpoints
EnforceSecurity(client_ip) ==
    LET r == enforce_security(lite, client_ip, now)
    IN  /\ lite.up
        /\ lite' = [lite EXCEPT !.rate_limit_store = r.rate_limit_store]
        /\ granted' = IF r.answer = "ok"
                      THEN [granted EXCEPT ![client_ip] = Append(@, now)]
                      ELSE granted
        /\ rcall' = [op |-> "enforce_security", who |-> client_ip,
                     answer |-> r.answer, denied |-> DeniedBefore(client_ip)]
        /\ UNCHANGED <<now, limiter>>
        /\ UNCHANGED <<storeVars, embedVars, chunkVars, writers, agent>>

NextLimit ==
    \/ Tick
    \/ \E max_requests \in RequestLimits, window_seconds \in Windows :
          NewRateLimiter(max_requests, window_seconds)
    \/ \E user_id \in Users : IsAllowed(user_id)
    \/ \E rate_limit_max \in RequestLimits, allowed_ips \in {{}, {"u1"}} :
          ImportServerLite(rate_limit_max, allowed_ips)
    \/ \E client_ip \in Users : EnforceSecurity(client_ip)

(***************************************************************************)
(* AIAgent (src/agents/agent.py): process_query, one statement group at a  *)
(* time. Every sub-agent's execute catches what its work raises and        *)
(* answers a dict with status "error".                                     *)
(***************************************************************************)
\* AgentAction, in the order of the enum
AgentActions == <<"plan", "retrieve", "reason", "generate", "validate">>

\* retrieval_result: an error, or success with no document or with some;
\* validation_result: an error, or success with is_valid True or False
RetrievalResults == {"error", "empty", "docs"}
StepResults == {"error", "success"}
ValidationResults == {"error", "valid", "invalid"}

\* AIAgent.__init__ and the state between two calls: pc is the statement
\* process_query stands at, result the dict it returned
NoResultYet == [status |-> "none", thoughts |-> <<>>, thought_count |-> -1,
                is_valid_response |-> TRUE]
NoAgent == [pc |-> "idle", thoughts |-> <<>>, top_k |-> 0,
            return_thoughts |-> TRUE, retrieval |-> "none",
            reasoning |-> "none", generation |-> "none",
            validation |-> "none", result |-> NoResultYet]

\* think: self.thoughts.append(AgentThought(action=action, ...))
think(thoughts, action) == Append(thoughts, action)

\* the dict returned on an error: "thoughts" is None without return_thoughts
ErrorResult(a, thoughts) ==
    [status |-> "error",
     thoughts |-> IF a.return_thoughts THEN thoughts ELSE <<>>,
     thought_count |-> -1, is_valid_response |-> TRUE]

\* process_query entered with self.thoughts left as it is
ProcessQueryKeeping(top_k, return_thoughts) ==
    /\ agent.pc = "idle"
    /\ agent' = [NoAgent EXCEPT !.pc = "plan", !.top_k = top_k,
                                !.return_thoughts = return_thoughts,
                                !.thoughts = agent.thoughts]
    /\ UNCHANGED <<storeVars, embedVars, chunkVars, writers, limitVars>>

\* process_query is entered: the thoughts of the call before are dropped
ProcessQuery(top_k, return_thoughts) ==
    /\ agent.pc = "idle"
    /\ agent' = [NoAgent EXCEPT !.pc = "plan", !.top_k = top_k,
                                !.return_thoughts = return_thoughts]
    /\ UNCHANGED <<storeVars, embedVars, chunkVars, writers, limitVars>>

\* Step 1
Plan ==
    /\ agent.pc = "plan"
    /\ agent' = [agent EXCEPT !.thoughts = think(@, "plan"), !.pc = "retrieve"]
    /\ UNCHANGED <<storeVars, embedVars, chunkVars, writers, limitVars>>

\* Step 2: an error of the retrieval agent ends the call
Retrieve(retrieval_result) ==
    LET thoughts == think(agent.thoughts, "retrieve")
    IN  /\ agent.pc = "retrieve"
        /\ agent' = IF retrieval_result = "error"
                    THEN [agent EXCEPT !.thoughts = thoughts,
                                       !.retrieval = retrieval_result,
                                       !.pc = "idle",
                                       !.result = ErrorResult(agent, thoughts)]
                    ELSE [agent EXCEPT !.thoughts = thoughts,
                                       !.retrieval = retrieval_result,
                                       !.pc = "reason"]
        /\ UNCHANGED <<storeVars, embedVars, chunkVars, writers, limitVars>>

\* Step 3: the status of reasoning_result is not looked at
Reason(reasoning_result) ==
    /\ agent.pc = "reason"
    /\ agent' = [agent EXCEPT !.thoughts = think(@, "reason"),
                              !.reasoning = reasoning_result,
                              !.pc = "generate"]
    /\ UNCHANGED <<storeVars, embedVars, chunkVars, writers, limitVars>>

\* Step 4: an error of the generation agent ends the call
Generate(generation_result) ==
    LET thoughts == think(agent.thoughts, "generate")
    IN  /\ agent.pc = "generate"
        /\ agent' = IF generation_result = "error"
                    THEN [agent EXCEPT !.thoughts = thoughts,
                                       !.generation = generation_result,
                                       !.pc = "idle",
                                       !.result = ErrorResult(agent, thoughts)]
                    ELSE [agent EXCEPT !.thoughts = thoughts,
                                       !.generation = generation_result,
                                       !.pc = "validate"]
        /\ UNCHANGED <<storeVars, embedVars, chunkVars, writers, limitVars>>

\* Step 5 and the final result: validation_result.get("is_valid", True)
Validate(validation_result) ==
    LET thoughts == think(agent.thoughts, "validate")
    IN  /\ agent.pc = "validate"
        /\ agent' = [agent EXCEPT
              !.thoughts = thoughts,
              !.validation = validation_result,
              !.pc = "idle",
              !.result =
                  [status |-> "success",
                   thoughts |-> IF agent.return_thoughts THEN thoughts ELSE <<>>,
                   thought_count |-> IF agent.return_thoughts
                                     THEN Len(thoughts) ELSE -1,
                   is_valid_response |-> validation_result # "invalid"]]
        /\ UNCHANGED <<storeVars, embedVars, chunkVars, writers, limitVars>>

NextAgent ==
    \/ \E top_k \in 0..MaxTopK, return_thoughts \in BOOLEAN :
          ProcessQuery(top_k, return_thoughts)
    \/ Plan
    \/ \E retrieval_result \in RetrievalResults : Retrieve(retrieval_result)
    \/ \E reasoning_result \in StepResults : Reason(reasoning_result)
    \/ \E generation_result \in StepResults : Generate(generation_result)
    \/ \E validation_result \in ValidationResults : Validate(validation_result)

InitOther ==
    /\ writers = [w \in Writers |-> Idle]
    /\ agent = NoAgent
    /\ now = 0
    /\ limiter = NoLimiter
    /\ lite = NoLite
    /\ granted = NoRequests
    /\ rcall = NoRCall

(***************************************************************************)
(* TextChunker. A str is a sequence of characters.                         *)
(***************************************************************************)
NoChunker == [up |-> FALSE, chunk_size |-> 0, chunk_overlap |-> 0]
NoCall == [op |-> "none", text |-> <<>>, raised |-> "none", chunks |-> <<>>,
           overlaps |-> <<>>]

NL == "\n"
IsSpace(c) == c \in {" ", NL}

\* str.strip()
RECURSIVE lstrip(_)
lstrip(s) == IF s # <<>> /\ IsSpace(Head(s)) THEN lstrip(Tail(s)) ELSE s
RECURSIVE rstrip(_)
rstrip(s) ==
    IF s # <<>> /\ IsSpace(s[Len(s)]) THEN rstrip(SubSeq(s, 1, Len(s) - 1)) ELSE s
strip(s) == rstrip(lstrip(s))

\* text.split('\n\n'): cur is the piece read so far
RECURSIVE SplitAt(_, _)
SplitAt(s, cur) ==
    IF s = <<>> THEN <<cur>>
    ELSE IF Len(s) >= 2 /\ s[1] = NL /\ s[2] = NL
    THEN <<cur>> \o SplitAt(SubSeq(s, 3, Len(s)), <<>>)
    ELSE SplitAt(Tail(s), Append(cur, Head(s)))
split_paragraphs(text) == SplitAt(text, <<>>)

\* str.split(): the words between runs of whitespace
RECURSIVE WordsAt(_, _)
WordsAt(s, cur) ==
    LET done == IF cur = <<>> THEN <<>> ELSE <<cur>>
    IN  IF s = <<>> THEN done
        ELSE IF IsSpace(Head(s)) THEN done \o WordsAt(Tail(s), <<>>)
        ELSE WordsAt(Tail(s), Append(cur, Head(s)))
split(s) == WordsAt(s, <<>>)

\* ' '.join(words)
RECURSIVE join(_)
join(words) ==
    IF words = <<>> THEN <<>>
    ELSE IF Len(words) = 1 THEN words[1]
    ELSE words[1] \o <<" ">> \o join(Tail(words))

\* words[-n:] for n > 0
LastN(words, n) ==
    SubSeq(words, IF n >= Len(words) THEN 1 ELSE Len(words) - n + 1, Len(words))

Abs(x) == IF x < 0 THEN -x ELSE x

\* int(n * (chunk_overlap / chunk_size)) for chunk_size # 0: the quotient
\* cut towards zero (the sizes of ChunkSizes divide exactly in binary, so
\* the float product is the exact one)
OverlapWords(n, chunk_overlap, chunk_size) ==
    LET q == Abs(n * chunk_overlap) \div Abs(chunk_size)
    IN  IF (n * chunk_overlap >= 0) = (chunk_size > 0) THEN q ELSE -q

SourceFile == "a.txt"

\* SaveAndOverlap with the last words replaced by the first ones, and the
\* next start_char counted back from the old one
SaveAndOverlapHead(st, chunk_size, chunk_overlap) ==
    LET chunk_text == strip(st.current_chunk)
        saved == IF chunk_text # <<>>
                 THEN Append(st.chunks,
                        MkChunk(SourceFile, st.chunk_index, 0, st.start_char,
                                st.start_char + Len(chunk_text), chunk_text))
                 ELSE st.chunks
        index == IF chunk_text # <<>> THEN st.chunk_index + 1 ELSE st.chunk_index
        words == split(st.current_chunk)
    IN  IF chunk_size = 0
        THEN [st EXCEPT !.chunks = saved, !.chunk_index = index,
                        !.raised = "ZeroDivisionError"]
        ELSE LET overlap_words == OverlapWords(Len(words), chunk_overlap, chunk_size)
                 overlap == IF overlap_words > 0
                            THEN join(SubSeq(words, 1, Min(overlap_words, Len(words))))
                            ELSE <<>>
                 current == IF overlap_words > 0 THEN overlap \o <<NL, NL>> ELSE <<>>
             IN  [chunks |-> saved, chunk_index |-> index,
                  current_chunk |-> current, char_count |-> Len(current),
                  start_char |-> st.start_char - Len(current) - 1,
                  overlaps |-> Append(st.overlaps, overlap), raised |-> "none"]

\* chunk_text, lines 63-84: the chunk read so far is saved, and the next one
\* starts with its last words joined by single blanks
SaveAndOverlap(st, chunk_size, chunk_overlap) ==
    LET chunk_text == strip(st.current_chunk)
        saved == IF chunk_text # <<>>
                 THEN Append(st.chunks,
                        MkChunk(SourceFile, st.chunk_index, 0, st.start_char,
                                st.start_char + Len(chunk_text), chunk_text))
                 ELSE st.chunks
        index == IF chunk_text # <<>> THEN st.chunk_index + 1 ELSE st.chunk_index
        words == split(st.current_chunk)
    IN  IF chunk_size = 0
        THEN [st EXCEPT !.chunks = saved, !.chunk_index = index,
                        !.raised = "ZeroDivisionError"]
        ELSE LET overlap_words == OverlapWords(Len(words), chunk_overlap, chunk_size)
                 overlap == IF overlap_words > 0
                            THEN join(LastN(words, overlap_words)) ELSE <<>>
                 current == IF overlap_words > 0 THEN overlap \o <<NL, NL>> ELSE <<>>
             IN  [chunks |-> saved, chunk_index |-> index,
                  current_chunk |-> current, char_count |-> Len(current),
                  start_char |-> st.start_char + Len(chunk_text) - Len(current),
                  overlaps |-> Append(st.overlaps, overlap), raised |-> "none"]

\* chunk_text, the loop over the paragraphs from the p-th on
RECURSIVE ChunkLoop(_, _, _, _, _)
ChunkLoop(st, paragraphs, p, chunk_size, chunk_overlap) ==
    IF p > Len(paragraphs) THEN st
    ELSE LET paragraph == strip(paragraphs[p])
             st1 == IF st.char_count + Len(paragraph) > chunk_size
                       /\ st.current_chunk # <<>>
                    THEN SaveAndOverlap(st, chunk_size, chunk_overlap)
                    ELSE st
             st2 == [st1 EXCEPT !.current_chunk = @ \o paragraph \o <<NL, NL>>,
                                !.char_count = @ + Len(paragraph) + 2]
         IN  IF paragraph = <<>>
             THEN ChunkLoop(st, paragraphs, p + 1, chunk_size, chunk_overlap)
             ELSE IF st1.raised # "none" THEN st1
             ELSE ChunkLoop(st2, paragraphs, p + 1, chunk_size, chunk_overlap)

\* total_chunks of every chunk set to their number
WithTotal(chunks) ==
    [i \in 1..Len(chunks) |-> [chunks[i] EXCEPT !.total_chunks = Len(chunks)]]

\* chunk_text without the test of line 90: the rest is a chunk even when it
\* is empty
chunk_textKeepingEmpty(text, chunk_size, chunk_overlap) ==
    LET st == ChunkLoop([chunks |-> <<>>, chunk_index |-> 0, current_chunk |-> <<>>,
                         char_count |-> 0, start_char |-> 0, overlaps |-> <<>>,
                         raised |-> "none"],
                        split_paragraphs(text), 1, chunk_size, chunk_overlap)
        last_text == strip(st.current_chunk)
        final == Append(st.chunks,
                        MkChunk(SourceFile, st.chunk_index, 0, st.start_char,
                                st.start_char + Len(last_text), last_text))
    IN  IF st.raised # "none"
        THEN [raised |-> st.raised, chunks |-> <<>>, overlaps |-> st.overlaps]
        ELSE [raised |-> "none", chunks |-> WithTotal(final), overlaps |-> st.overlaps]

\* TextChunker.chunk_text: what it raised, the chunks, and the overlap text
\* computed at each split
chunk_text(text, chunk_size, chunk_overlap) ==
    LET st == ChunkLoop([chunks |-> <<>>, chunk_index |-> 0, current_chunk |-> <<>>,
                         char_count |-> 0, start_char |-> 0, overlaps |-> <<>>,
                         raised |-> "none"],
                        split_paragraphs(text), 1, chunk_size, chunk_overlap)
        last_text == strip(st.current_chunk)
        final == IF last_text # <<>>
                 THEN Append(st.chunks,
                        MkChunk(SourceFile, st.chunk_index, 0, st.start_char,
                                st.start_char + Len(last_text), last_text))
                 ELSE st.chunks
    IN  IF st.raised # "none"
        THEN [raised |-> st.raised, chunks |-> <<>>, overlaps |-> st.overlaps]
        ELSE [raised |-> "none", chunks |-> WithTotal(final), overlaps |-> st.overlaps]

\* chunk_text_by_size, the loop from offset i on (chunk_size > 0, step > 0)
RECURSIVE BySizeLoop(_, _, _, _, _)
BySizeLoop(text, i, chunks, chunk_size, step) ==
    IF i >= Len(text) THEN chunks
    ELSE LET end == Min(i + chunk_size, Len(text))
             piece == strip(SubSeq(text, i + 1, end))
             next == IF piece # <<>>
                     THEN Append(chunks,
                            MkChunk(SourceFile, Len(chunks), 0, i, end, piece))
                     ELSE chunks
         IN  IF end >= Len(text) THEN next
             ELSE BySizeLoop(text, i + step, next, chunk_size, step)

\* TextChunker.chunk_text_by_size: range(0, len(text), chunk_size -
\* chunk_overlap) raises ValueError for a step of 0 and is empty for a
\* negative step
chunk_text_by_size(text, chunk_size, chunk_overlap) ==
    LET step == chunk_size - chunk_overlap
    IN  IF step = 0 THEN [raised |-> "ValueError", chunks |-> <<>>, overlaps |-> <<>>]
        ELSE IF step < 0 \/ chunk_size <= 0
        THEN [raised |-> "none", chunks |-> <<>>, overlaps |-> <<>>]
        ELSE [raised |-> "none",
              chunks |-> WithTotal(BySizeLoop(text, 0, <<>>, chunk_size, step)),
              overlaps |-> <<>>]

\* the configurations and the texts tried
ChunkSizes == {-1, 0, 2, 4}
ChunkOverlaps == {0, 1, 3}
ParagraphPool == {<<>>, <<"a">>, <<"a", " ", "b", NL, "c">>}
RECURSIVE JoinParagraphs(_)
JoinParagraphs(ps) ==
    IF ps = <<>> THEN <<>>
    ELSE IF Len(ps) = 1 THEN ps[1]
    ELSE ps[1] \o <<NL, NL>> \o JoinParagraphs(Tail(ps))
ChunkTexts == {JoinParagraphs(ps) : ps \in SeqsUpTo(ParagraphPool, MaxPars)}

\* TextChunker(chunk_size, chunk_overlap): stores the two, checks nothing
NewChunker(chunk_size, chunk_overlap) ==
    /\ chunker' = [up |-> TRUE, chunk_size |-> chunk_size,
                   chunk_overlap |-> chunk_overlap]
    /\ cres' = NoCall
    /\ UNCHANGED <<storeVars, embedVars, otherVars>>

ChunkText(text) ==
    /\ chunker.up
    /\ LET r == chunk_text(text, chunker.chunk_size, chunker.chunk_overlap)
       IN  cres' = [op |-> "chunk_text", text |-> text, raised |-> r.raised,
                    chunks |-> r.chunks, overlaps |-> r.overlaps]
    /\ UNCHANGED <<chunker, storeVars, embedVars, otherVars>>

ChunkTextBySize(text) ==
    /\ chunker.up
    /\ LET r == chunk_text_by_size(text, chunker.chunk_size, chunker.chunk_overlap)
       IN  cres' = [op |-> "chunk_text_by_size", text |-> text,
                    raised |-> r.raised, chunks |-> r.chunks,
                    overlaps |-> r.overlaps]
    /\ UNCHANGED <<chunker, storeVars, embedVars, otherVars>>

NextChunk ==
    \/ \E chunk_size \in ChunkSizes, chunk_overlap \in ChunkOverlaps :
          NewChunker(chunk_size, chunk_overlap)
    \/ \E text \in ChunkTexts : ChunkText(text)
    \/ \E text \in ChunkTexts : ChunkTextBySize(text)

(***************************************************************************)
(* EmbeddingManager                                                        *)
(***************************************************************************)
\* Python's None; no vector is empty
None == <<>>

EmptyCache == [t \in {} |-> None]

\* self.embedding_cache[text] = embedding
Put(c, text, embedding) ==
    [t \in DOMAIN c \cup {text} |-> IF t = text THEN embedding ELSE c[t]]

\* embed_text: the cache afterwards, the value returned and what the
\* underlying model was handed
embed_text(c, text, use_cache) ==
    IF use_cache /\ text \in DOMAIN c
    THEN [cache |-> c, ret |-> c[text], sent |-> <<>>]
    ELSE [cache |-> IF use_cache THEN Put(c, text, Encode(text)) ELSE c,
          ret |-> Encode(text),
          sent |-> <<<<text>>>>]

\* the first loop of embed_texts: position i goes to the model
Missing(c, texts, use_cache, i) == ~(use_cache /\ texts[i] \in DOMAIN c)

\* text_indices
TextIndices(c, texts, use_cache) ==
    SelectSeq([i \in 1..Len(texts) |-> i],
              LAMBDA i : Missing(c, texts, use_cache, i))

RECURSIVE PutAll(_, _, _, _, _)
\* the second loop's cache writes, for j = n .. Len(text_indices)
PutAll(c, texts, text_indices, new_embeddings, n) ==
    IF n > Len(text_indices) THEN c
    ELSE PutAll(Put(c, texts[text_indices[n]], new_embeddings[n]),
                texts, text_indices, new_embeddings, n + 1)

\* the list returned: None everywhere, then embeddings[idx] = new_embeddings[i]
Spliced(texts, text_indices, new_embeddings) ==
    [i \in 1..Len(texts) |->
        IF \E j \in 1..Len(text_indices) : text_indices[j] = i
        THEN new_embeddings[CHOOSE j \in 1..Len(text_indices) : text_indices[j] = i]
        ELSE None]

EmbedTextsOf(c, texts, use_cache, text_indices) ==
    LET texts_to_embed == [j \in 1..Len(text_indices) |-> texts[text_indices[j]]]
        new_embeddings == [j \in 1..Len(text_indices) |-> Encode(texts_to_embed[j])]
    IN  [cache |-> IF use_cache
                   THEN PutAll(c, texts, text_indices, new_embeddings, 1)
                   ELSE c,
         ret |-> Spliced(texts, text_indices, new_embeddings),
         sent |-> IF texts_to_embed = <<>> THEN <<>> ELSE <<texts_to_embed>>]

\* embed_texts
embed_texts(c, texts, use_cache) ==
    EmbedTextsOf(c, texts, use_cache, TextIndices(c, texts, use_cache))

InitEmbed ==
    /\ cache = EmptyCache
    /\ ecall = [op |-> "none", texts |-> <<>>, use_cache |-> TRUE, ok |-> TRUE]
    /\ eret = <<>>
    /\ esent = <<>>
    /\ chunker = NoChunker
    /\ cres = NoCall
    /\ InitOther

\* EmbeddingManager.embed_text; fails: the underlying model raises when called
EmbedText(text, use_cache, fails) ==
    LET r == embed_text(cache, text, use_cache)
        raised == fails /\ r.sent # <<>>
    IN  /\ cache' = IF raised THEN cache ELSE r.cache
        /\ eret' = IF raised THEN None ELSE r.ret
        /\ esent' = r.sent
        /\ ecall' = [op |-> "embed_text", texts |-> <<text>>,
                     use_cache |-> use_cache, ok |-> ~raised]
        /\ UNCHANGED <<storeVars, chunkVars, otherVars>>

\* embed_texts as it would be with the cache written before the model answers
EmbedTextsCachingFirst(texts, use_cache, fails) ==
    LET r == embed_texts(cache, texts, use_cache)
        raised == fails /\ r.sent # <<>>
    IN  /\ cache' = r.cache
        /\ eret' = IF raised THEN None ELSE r.ret
        /\ esent' = r.sent
        /\ ecall' = [op |-> "embed_texts", texts |-> texts,
                     use_cache |-> use_cache, ok |-> ~raised]
        /\ UNCHANGED <<storeVars, chunkVars, otherVars>>

\* EmbeddingManager.embed_texts
EmbedTexts(texts, use_cache, fails) ==
    LET r == embed_texts(cache, texts, use_cache)
        raised == fails /\ r.sent # <<>>
    IN  /\ cache' = IF raised THEN cache ELSE r.cache
        /\ eret' = IF raised THEN None ELSE r.ret
        /\ esent' = r.sent
        /\ ecall' = [op |-> "embed_texts", texts |-> texts,
                     use_cache |-> use_cache, ok |-> ~raised]
        /\ UNCHANGED <<storeVars, chunkVars, otherVars>>

\* EmbeddingManager.clear_cache
ClearCache ==
    /\ cache' = EmptyCache
    /\ eret' = None
    /\ esent' = <<>>
    /\ ecall' = [op |-> "clear_cache", texts |-> <<>>, use_cache |-> TRUE,
                 ok |-> TRUE]
    /\ UNCHANGED <<storeVars, chunkVars, otherVars>>

NextEmbed ==
    \/ \E text \in Texts, use_cache \in BOOLEAN, fails \in BOOLEAN :
            EmbedText(text, use_cache, fails)
    \/ \E texts \in SeqsUpTo(Texts, MaxTexts), use_cache \in BOOLEAN,
          fails \in BOOLEAN :
            EmbedTexts(texts, use_cache, fails)
    \/ ClearCache

Init == InitStore /\ InitEmbed

Spec == Init /\ [][NextStore]_vars

\* the store part is not started: no manager, no directory
InitEmbedOnly ==
    /\ InitEmbed
    /\ store = Down
    /\ up = FALSE
    /\ disk = NoDir
    /\ last = "init"
    /\ hits = <<>>
    /\ res = <<>>
    /\ uploads = NoUploads
    /\ clog = NoLog

SpecEmbed == InitEmbedOnly /\ [][NextEmbed]_vars

\* the manager beside an uploads directory, without the searches
InitReset ==
    /\ store = Down
    /\ up = FALSE
    /\ disk \in InitDirs
    /\ last = "init"
    /\ hits = <<>>
    /\ res = <<>>
    /\ uploads \in InitUploads
    /\ clog = NoLog
    /\ InitEmbed

NextReset ==
    \/ Construct
    \/ \E b \in Batches : AddChunks(b.chunks, b.embeddings)
    \/ \E uploads_dir, rmtree_fails \in BOOLEAN : Clear(uploads_dir, rmtree_fails)

(***************************************************************************)
(* The main API server (src/api/server.py): one RAGPipeline, and with it   *)
(* one VectorStoreManager, held in a global for all the requests           *)
(***************************************************************************)
\* POST /vector-store/clear: the global pipeline is replaced by a new
\* RAGPipeline(), whose VectorStoreManager loads vector_store_path when it
\* exists. Nothing is deleted. When the load raises, the globals are not
\* assigned and the answer is a 500.
clear_vector_store ==
    LET r == load(FreshStore(Dimension), disk)
    IN  /\ up
        /\ store' = IF r.raised THEN store ELSE r.store
        /\ last' = IF r.raised THEN "server_clear_fail" ELSE "server_clear_ok"
        /\ UNCHANGED <<up, disk>>
        /\ NoResult

\* the server's start (Construct), POST /process-document (AddChunks),
\* POST /vector-store/clear and POST /query (Search)
NextServer ==
    \/ Construct
    \/ \E b \in Batches : AddChunks(b.chunks, b.embeddings)
    \/ clear_vector_store
    \/ \E q \in VecPool, top_k \in 1..MaxTopK : Search(q, top_k)

SpecServer == Init /\ [][NextServer]_vars

SpecWriters == Init /\ [][NextWriters]_vars

SpecLimit == InitEmbedOnly /\ [][NextLimit]_vars

SpecAgent == InitEmbedOnly /\ [][NextAgent]_vars

SpecChunk == InitEmbedOnly /\ [][NextChunk]_vars

SpecReset == InitReset /\ [][NextReset]_vars

(***************************************************************************)
(* Properties of the vector store (Spec)                                   *)
(***************************************************************************)
\* C1: after every completed mutation of the store (construction with its
\* load, add_chunks, clear) the metadata list is as long as the index has
\* rows.
C1_MetadataMatchesRows ==
    last \in {"construct_ok", "add_ok", "clear"}
        => Len(store.metadata) = Len(store.index.rows)

\* C2: every result of a search carries the content, source_file,
\* chunk_index and total_chunks of the metadata record at the row that
\* matched.
C2_ResultIsMatchedRow ==
    last = "search_ok" =>
        /\ Len(res) = Len(hits)
        /\ \A i \in 1..Len(res) :
              hits[i] >= 0 =>
                LET m == store.metadata[hits[i] + 1]
                IN  /\ res[i].content = m.content
                    /\ res[i].source_file = m.source_file
                    /\ res[i].chunk_index = m.chunk_index
                    /\ res[i].total_chunks = m.total_chunks

\* C5: an add_chunks call that fails leaves the index rows, the metadata
\* list and the vector matrix as they were before the call.
C5_FailedAddChangesNothing ==
    [][last' = "add_fail" => store' = store]_vars

\* C6: a load never completes on a directory whose metadata artifact holds
\* another number of records than its index artifact holds rows.
C6_LoadRejectsMismatch ==
    last = "construct_ok" =>
        ~(/\ disk.index.present
          /\ disk.meta.present
          /\ Len(disk.meta.recs) # Len(disk.index.rows))

\* C7: the directory never holds, beside the artifacts a save wrote, an
\* artifact of another store state: a reader or a restart after a crash
\* sees the three artifacts of one state.
C7_SaveIsAtomic == ~disk.torn

\* what a caller can see of a store: row count, records, and every search
SameRetrieval(a, b) ==
    /\ Len(a.index.rows) = Len(b.index.rows)
    /\ a.metadata = b.metadata
    /\ \A q \in VecPool, top_k \in 1..MaxTopK, assertsK \in BOOLEAN :
          /\ search(a, q, top_k, assertsK) = search(b, q, top_k, assertsK)
          /\ ManagerSearch(a, search(a, q, top_k, assertsK))
               = ManagerSearch(b, search(b, q, top_k, assertsK))

\* C8: a store saved (by add_chunks or save) and then loaded into a fresh
\* store of the same dimension has the same row count, the same records in
\* the same order and answers every search alike.
C8_SaveLoadRoundTrip ==
    [][(last \in {"add_ok", "save_ok"} /\ last' = "construct_ok")
          => SameRetrieval(store, store')]_vars

\* a manager constructed on a directory that only a save of two batches can
\* have written (the directories given at the start hold one record, "x")
C8_Witness ==
    /\ last = "construct_ok"
    /\ Len(store.index.rows) = 2
    /\ Len(store.metadata) = 2
    /\ store.metadata[2].content = "y"
    /\ ~disk.torn

\* C9: when add_chunks has returned normally the directory holds the
\* in-memory store: the same records in the same order, the same rows.
C9_AddChunksPersists ==
    last = "add_ok" =>
        /\ disk.exists
        /\ disk.meta.present
        /\ disk.meta.shape = "list"
        /\ Len(disk.meta.recs) = Len(store.metadata)
        /\ \A i \in 1..Len(store.metadata) :
              disk.meta.recs[i] = asdict(store.metadata[i])
        /\ disk.index.present
        /\ disk.index.rows = store.index.rows
        /\ disk.emb.present
        /\ disk.emb.rows = store.embeddings.rows

\* add_chunks returned after appending a second batch to a store of one row
C9_Witness ==
    /\ last = "add_ok"
    /\ Len(store.metadata) = 2
    /\ Len(store.index.rows) = 2
    /\ store.metadata[1].content # store.metadata[2].content

\* C10: a metadata artifact in either shape is accepted by load and gives
\* the records it holds.
C10_BothShapesLoad ==
    (/\ last \in {"construct_ok", "construct_fail"}
     /\ disk.meta.present
     /\ disk.meta.shape \in {"list", "wrapped"}) =>
        /\ last = "construct_ok"
        /\ store.metadata = [i \in 1..Len(disk.meta.recs) |->
                                FromDict(disk.meta.recs[i])]

\* C11: when an artifact cannot be read (here a metadata.json cut short)
\* the constructor does not raise and the manager holds an empty store.
C11_LoadFailureGivesEmptyStore ==
    (/\ last \in {"construct_ok", "construct_fail"}
     /\ disk.meta.present
     /\ disk.meta.shape = "truncated") =>
        /\ last = "construct_ok"
        /\ up
        /\ store = FreshStore(Dimension)

\* row k holds the vector of the record at position k, for every k
Aligned(s) ==
    /\ Len(s.index.rows) = Len(s.metadata)
    /\ \A k \in 1..Len(s.index.rows) :
          s.index.rows[k] = Encode(s.metadata[k].content)

\* C14: an append that completes on a store whose rows and records are in
\* step leaves the earlier rows and records where they were, puts the
\* vectors and the records of the batch behind them in input order, each
\* vector at the row of its record, and every row can be a hit of a search.
C14_AppendsKeepRowOrder ==
    [][(Aligned(store) /\ last' = "add_ok") =>
          /\ Len(store'.index.rows) >= Len(store.index.rows)
          /\ Len(store'.metadata) >= Len(store.metadata)
          /\ SubSeq(store'.index.rows, 1, Len(store.index.rows)) = store.index.rows
          /\ SubSeq(store'.metadata, 1, Len(store.metadata)) = store.metadata
          /\ Aligned(store')
          /\ \A k \in 1..Len(store'.index.rows) :
                \E p \in 1..Len(store'.index.rows) :
                   search(store', store'.index.rows[k],
                          Len(store'.metadata), FALSE).rows[p] = k - 1
      ]_vars

\* a >= b for two fractions with positive denominators
FracGE(a, b) == a.num * b.den >= b.num * a.den

\* C15: the results of a search come with similarities that never grow
\* from one result to the next, and rows at the same distance come in
\* ascending row order.
C15_ResultsOrdered ==
    last = "search_ok" =>
        /\ Len(res) = Len(hits)
        /\ \A i, j \in 1..Len(res) :
              i < j =>
                /\ FracGE(res[i].similarity, res[j].similarity)
                /\ (/\ hits[i] >= 0
                    /\ hits[j] >= 0
                    /\ res[i].similarity = res[j].similarity) => hits[i] < hits[j]

\* a search that returned two rows at the same distance, and one that
\* returned two rows at different distances
C15_Witness ==
    /\ last = "search_ok"
    /\ Len(res) = 2
    /\ hits = <<0, 1>>
    /\ res[1].similarity = res[2].similarity

\* C16: a search with top_k above the number of rows of the index returns
\* one result per row: as many hits as rows, every row once.
C16_LargeKReturnsEveryRowOnce ==
    [][\A q \in VecPool, top_k \in 1..MaxTopK :
          (/\ Search(q, top_k)
           /\ last' = "search_ok"
           /\ top_k > Len(store.index.rows)) =>
              /\ Len(hits') = Len(store.index.rows)
              /\ Len(res') = Len(store.index.rows)
              /\ {hits'[i] : i \in 1..Len(hits')}
                    = 0..(Len(store.index.rows) - 1)
      ]_vars

\* C17: a search on a store without rows raises nothing and returns no
\* result, whatever top_k.
C17_EmptyStoreSearch ==
    (/\ last \in {"search_ok", "search_fail"}
     /\ store.index.rows = <<>>
     /\ store.metadata = <<>>
     /\ store.index.d = Dimension) =>
        /\ last = "search_ok"
        /\ res = <<>>

(***************************************************************************)
(* Properties of clear beside an uploads directory (SpecReset)             *)
(***************************************************************************)
\* the files and subdirectories still in the uploads directory
FilesAndDirs(u) == {e \in u.entries : EntryKind(e) \in {"file", "dir"}}

\* statistics of zero, no artifact on disk, and an empty store for the next
\* manager constructed on the path
ResetDone ==
    /\ get_statistics(store).total_chunks = 0
    /\ get_statistics(store).unique_documents = 0
    /\ ~disk.index.present /\ ~disk.meta.present /\ ~disk.emb.present
    /\ load(FreshStore(Dimension), disk)
          = [store |-> FreshStore(Dimension), raised |-> FALSE]

\* C12 as stated: after clear(uploads_dir) has completed the statistics are
\* zero, no file or subdirectory is left in uploads_dir, the artifacts are
\* gone and the next manager on the path is empty.
C12_ClearRemovesEverything ==
    (last = "clear" /\ clog.given) =>
        /\ ResetDone
        /\ FilesAndDirs(uploads) = {}

\* C12 as the code has it: after clear(uploads_dir) has completed the
\* statistics are zero, the artifacts are gone, the next manager on the
\* path is empty, and the files and subdirectories left in uploads_dir are
\* exactly those whose deletion raised and was logged as an error.
C12_ClearRemovesAllButFailures ==
    (last = "clear" /\ clog.given) =>
        /\ ResetDone
        /\ FilesAndDirs(uploads) = clog.errors
        /\ clog.deleted \cap uploads.entries = {}

\* a clear that deleted one entry and failed on another, over a directory
\* that existed
C12_Witness ==
    /\ last = "clear"
    /\ clog.given
    /\ clog.deleted # {}
    /\ clog.errors # {}
    /\ disk.exists

\* C13: no failure to delete a file makes clear raise: every clear returns
\* normally, with the store empty and every file and subdirectory of
\* uploads_dir attempted (deleted, or counted as an error).
C13_DeletionFailureNotFatal ==
    (last \in {"clear", "clear_fail"}) =>
        /\ last = "clear"
        /\ up
        /\ store.metadata = <<>> /\ store.index.rows = <<>>
        /\ clog.given => FilesAndDirs(uploads) = clog.errors

(***************************************************************************)
(* Properties of the EmbeddingManager (SpecEmbed)                          *)
(***************************************************************************)
\* C3: embed_texts(texts)[i] is what embed_text(texts[i]) returns, at every
\* position, whatever the cache held.
C3_BatchEqualsSingle ==
    (ecall.op = "embed_texts" /\ ecall.ok) =>
        /\ Len(eret) = Len(ecall.texts)
        /\ \A i \in 1..Len(ecall.texts) :
              eret[i] = embed_text(cache, ecall.texts[i], ecall.use_cache).ret

Range(s) == {s[i] : i \in 1..Len(s)}

\* C4: a batch call hands the model the distinct texts that were not cached,
\* each once, in one call, and equal inputs get equal vectors.
C4_DistinctMissingSentOnce ==
    [][(ecall'.op = "embed_texts" /\ ecall'.ok /\ ecall'.use_cache) =>
          LET missing == Range(ecall'.texts) \ DOMAIN cache
          IN  /\ missing = {} => esent' = <<>>
              /\ missing # {} =>
                    /\ Len(esent') = 1
                    /\ Range(esent'[1]) = missing
                    /\ Len(esent'[1]) = Cardinality(missing)
              /\ \A i, j \in 1..Len(ecall'.texts) :
                    ecall'.texts[i] = ecall'.texts[j] => eret'[i] = eret'[j]
      ]_vars

\* C18: a call in which the underlying model raised has raised itself,
\* returned nothing, and left the cache as it was before the call.
C18_FailureLeavesCache ==
    [][(ecall'.op \in {"embed_text", "embed_texts"} /\ ~ecall'.ok) =>
          /\ cache' = cache
          /\ eret' = None
      ]_vars

\* a batch call that failed on a text not cached, beside a text that was
C18_Witness ==
    /\ ecall.op = "embed_texts"
    /\ ~ecall.ok
    /\ ecall.use_cache
    /\ \E i, j \in 1..Len(ecall.texts) :
          /\ ecall.texts[i] \in DOMAIN cache
          /\ ecall.texts[j] \notin DOMAIN cache

(***************************************************************************)
(* Properties of the TextChunker (SpecChunk)                               *)
(***************************************************************************)
BadConfig(c) == c.chunk_overlap >= c.chunk_size \/ c.chunk_size <= 0

\* C19: with chunk_overlap >= chunk_size or chunk_size <= 0 both chunk_text
\* and chunk_text_by_size fail with a configuration error: they return no
\* chunks and raise no other error.
C19_BadConfigFailsFast ==
    (/\ chunker.up
     /\ BadConfig(chunker)
     /\ cres.op \in {"chunk_text", "chunk_text_by_size"}) =>
        cres.raised = "ConfigurationError"

IsPrefix(a, b) == Len(a) <= Len(b) /\ SubSeq(b, 1, Len(a)) = a
IsSuffix(a, b) == Len(a) <= Len(b) /\ SubSeq(b, Len(b) - Len(a) + 1, Len(b)) = a

\* C20: the overlap text with which chunk_text starts a chunk is literally
\* the end of the content of the chunk before it (chunk_size and
\* chunk_overlap being a valid pair).
C20_OverlapIsSuffix ==
    (/\ cres.op = "chunk_text"
     /\ cres.raised = "none"
     /\ ~BadConfig(chunker)) =>
        \A i \in 1..Len(cres.overlaps) :
            (cres.overlaps[i] # <<>> /\ i < Len(cres.chunks)) =>
                /\ IsPrefix(cres.overlaps[i], cres.chunks[i + 1].content)
                /\ IsSuffix(cres.overlaps[i], cres.chunks[i].content)

TwoParagraphs(text) ==
    LET ps == split_paragraphs(text)
    IN  Len(ps) = 2 /\ strip(ps[1]) # <<>> /\ strip(ps[2]) # <<>>

\* the length of the two trimmed paragraphs with their blank line
CombinedLength(text) ==
    LET ps == split_paragraphs(text)
    IN  Len(strip(ps[1])) + 2 + Len(strip(ps[2]))

TwoParagraphCall ==
    /\ cres.op = "chunk_text"
    /\ cres.raised = "none"
    /\ ~BadConfig(chunker)
    /\ TwoParagraphs(cres.text)

C23_NoEmptyChunk ==
    cres.op \in {"chunk_text", "chunk_text_by_size"} =>
        /\ \A i \in 1..Len(cres.chunks) : strip(cres.chunks[i].content) # <<>>
        /\ strip(cres.text) = <<>> => cres.chunks = <<>>

\* a call on a text of blank lines only, under a valid configuration
C23_Witness ==
    /\ cres.op = "chunk_text"
    /\ cres.raised = "none"
    /\ ~BadConfig(chunker)
    /\ cres.text # <<>>
    /\ strip(cres.text) = <<>>
    /\ cres.chunks = <<>>

\* C24: a chunk returned by chunk_text is longer than chunk_size only when
\* it is a single paragraph that is itself longer than chunk_size: a chunk
\* that starts with carried-over words or holds more than one paragraph is
\* at most chunk_size long.
C24_OnlySingleParagraphOversize ==
    (/\ cres.op = "chunk_text"
     /\ cres.raised = "none"
     /\ ~BadConfig(chunker)) =>
        \A i \in 1..Len(cres.chunks) :
            Len(cres.chunks[i].content) > chunker.chunk_size =>
                /\ i > 1 => cres.overlaps[i - 1] = <<>>
                /\ Len(split_paragraphs(cres.chunks[i].content)) = 1

\* C26: every pair returned by a search is the pair of a row that exists in
\* the index, 0 <= row < number of index rows, and names that row's chunk:
\* a slot the index left unfilled never becomes a result, whatever the
\* directory the store was loaded from.
C26_ResultsAreIndexRows ==
    last = "search_ok" =>
        \A i \in 1..Len(hits) :
            /\ 0 <= hits[i]
            /\ hits[i] < Len(store.index.rows)
            /\ res[i].chunk_id = store.metadata[hits[i] + 1].chunk_id

\* C25: once POST /vector-store/clear of the main API server has succeeded,
\* the store that /query and /vector-store/stats use is empty
\* (total_chunks = 0), whatever was processed or persisted before.
C25_ServerClearEmptiesStore ==
    last = "server_clear_ok" => get_statistics(store).total_chunks = 0

\* C27: when two VectorStoreManager objects on the same vector_store_path
\* have each appended their batch and saved, the persisted store holds the
\* rows of both batches, whatever the order of their steps.
C27_NoLostAppend ==
    (\A w \in Writers : writers[w].pc = "saved") =>
        \A w \in Writers :
            /\ \E i \in 1..Len(disk.meta.recs) :
                  disk.meta.recs[i].chunk_id = WriterChunks(w)[1].chunk_id
            /\ \E i \in 1..Len(disk.index.rows) :
                  disk.index.rows[i] = WriterEmbeddings(w)[1]

(***************************************************************************)
(* Properties of the request limiters (SpecLimit)                          *)
(***************************************************************************)
\* the requests of user let through in the window_seconds that end at t,
\* t included and t - window_seconds not
GrantedIn(times, t, window_seconds) ==
    Cardinality({i \in 1..Len(times) :
                    /\ t - window_seconds < times[i]
                    /\ times[i] <= t})

\* C28: for every user and every instant t, is_allowed has answered True
\* for at most max_requests of the user's calls made in the window_seconds
\* that end at t; and a call by one user changes neither what is recorded
\* for another user nor the answer that user would get.
C28_AtMostMaxPerWindow ==
    [][/\ limiter'.up =>
            \A user \in Users, t \in 0..MaxTime :
                GrantedIn(granted'[user], t, limiter'.window_seconds)
                    <= limiter'.max_requests
       /\ \A user \in Users :
            IsAllowed(user) =>
                \A other \in Users \ {user} :
                    /\ limiter'.requests[other] = limiter.requests[other]
                    /\ granted'[other] = granted[other]
                    /\ is_allowed(limiter', other, now).allowed
                          = is_allowed(limiter, other, now).allowed
      ]_vars

\* a user at the limit is refused while the other one is let through
C28_Witness ==
    /\ limiter.up
    /\ limiter.max_requests = 2
    /\ rcall.op = "is_allowed"
    /\ rcall.answer = "denied"
    /\ \E other \in Users \ {rcall.who} :
          /\ Len(granted[rcall.who]) > Len(granted[other])
          /\ is_allowed(limiter, other, now).allowed

\* every element of seq a is one of seq b, which is no shorter
NothingNew(a, b) ==
    /\ Len(a) <= Len(b)
    /\ \A i \in 1..Len(a) : \E j \in 1..Len(b) : b[j] = a[i]

\* C29: a refused request records nothing, in RateLimiter.is_allowed as in
\* enforce_security; hence a caller whose oldest recorded request has aged
\* out of the window (its age is window_seconds or more for the RateLimiter,
\* more than 60 s for enforce_security) is let through, however many
\* requests of theirs were refused since.
C29_DeniedRecordsNothing ==
    [][\A user \in Users :
        /\ (IsAllowed(user) /\ rcall'.answer = "denied") =>
              NothingNew(limiter'.requests[user], limiter.requests[user])
        /\ (/\ IsAllowed(user)
            /\ limiter.max_requests >= 1
            /\ limiter.requests[user] # <<>>
            /\ now - limiter.requests[user][1] >= limiter.window_seconds) =>
                rcall'.answer = "ok"
        /\ (EnforceSecurity(user) /\ rcall'.answer # "ok") =>
              NothingNew(lite'.rate_limit_store[user], lite.rate_limit_store[user])
        /\ (/\ EnforceSecurity(user)
            /\ lite.rate_limit_max >= 1
            /\ lite.rate_limit_store[user] # <<>>
            /\ now - lite.rate_limit_store[user][1] > rate_limit_window_sec) =>
                rcall'.answer = "ok"
      ]_vars

\* a caller let through after MaxDenied refusals or more, the limit being
\* reached before
C29_Witness ==
    /\ rcall.answer = "ok"
    /\ rcall.denied >= MaxDenied
    /\ Len(granted[rcall.who]) > 1
    /\ \/ limiter.up /\ limiter.max_requests = 1
       \/ lite.up /\ lite.rate_limit_max = 1

(***************************************************************************)
(* Properties of AIAgent.process_query (SpecAgent)                         *)
(***************************************************************************)
Returned == agent.pc = "idle" /\ agent.result.status # "none"

\* C30: process_query starts from an empty thought list and records the
\* thoughts in the order PLAN, RETRIEVE, REASON, GENERATE, VALIDATE. A
\* result with status success has exactly these five and is returned only
\* when retrieval and generation both succeeded; a retrieval failure
\* returns status error after exactly PLAN, RETRIEVE; a generation failure
\* returns status error after exactly the first four; a reasoning or a
\* validation failure never makes the result an error.
C30_ThoughtsInOrder ==
    /\ agent.pc = "plan" => agent.thoughts = <<>>
    /\ IsPrefix(agent.thoughts, AgentActions)
    /\ (Returned /\ agent.return_thoughts) => agent.result.thoughts = agent.thoughts
    /\ agent.result.status = "success" =>
          /\ agent.thoughts = AgentActions
          /\ agent.retrieval # "error"
          /\ agent.generation = "success"
          /\ agent.return_thoughts => agent.result.thought_count = 5
    /\ (Returned /\ agent.retrieval = "error") =>
          /\ agent.result.status = "error"
          /\ agent.thoughts = SubSeq(AgentActions, 1, 2)
    /\ (Returned /\ agent.generation = "error") =>
          /\ agent.result.status = "error"
          /\ agent.thoughts = SubSeq(AgentActions, 1, 4)
    /\ (Returned /\ agent.retrieval # "error" /\ agent.generation = "success") =>
          agent.result.status = "success"

\* a call that succeeded although the reasoning and the validation failed
C30_Witness ==
    /\ Returned
    /\ agent.result.status = "success"
    /\ agent.reasoning = "error"
    /\ agent.validation = "error"
    /\ agent.thoughts = AgentActions

====
